---- MODULE Spec2Model ----
(***************************************************************************)
(* Daily Motion: the streak tracker and the statistics rollups.            *)
(*                                                                         *)
(* Two programs keep a streak: the browser's ActivityProvider              *)
(* (activity-context, state in localStorage) and the Express server        *)
(* (routes + MemStorage).  They share no state (the browser never calls    *)
(* /api/logs), so a behaviour of Spec runs one of them, chosen by `side`.  *)
(*                                                                         *)
(* Calendar dates ("yyyy-MM-dd" strings in the code) are day numbers;      *)
(* day 0 is a Monday.  The code only compares date strings for equality    *)
(* and order, which the day numbers preserve.  `now` is the wall-clock     *)
(* day; it only moves forward.                                             *)
(*                                                                         *)
(* Specifications: Spec (the streak, by form submissions and by            *)
(* POST /api/logs), SpecStreakApi (POST /api/logs and GET /api/streak),    *)
(* SpecStore (the routes that create and delete activity types and logs),  *)
(* SpecDaily, SpecStats (weekly) and SpecMonthly (the rollups over the     *)
(* logs a browser or a server may hold), SpecInsights and SpecSuggest (the *)
(* weekly insights and the monthly suggestions over weeks and months with  *)
(* several activities), SpecStreakDeletes (the server's streak with logs   *)
(* added and deleted) and SpecStepper (the duration stepper of the form).  *)
(***************************************************************************)
EXTENDS Integers, Sequences, FiniteSets, TLC

VARIABLES
  side,        \* "client" | "server": which program this behaviour runs
  now,         \* wall-clock calendar day (new Date())
  \* ---- browser: ActivityProvider + AddActivity page
  formToday,   \* AddActivity's `today`, computed when the page last rendered
  logs,        \* ActivityProvider.logs, in insertion order
  streak,      \* ActivityProvider.streak
  nextId,      \* number of logs created so far (stands for Date.now() in the id)
  form,        \* AddActivity's form values: [hours, minutes]
  upd,         \* history: the latest updateStreak call (prior record, date, clock)
  \* ---- server: MemStorage + POST /api/logs
  activityLogs,\* MemStorage.activityLogs, in insertion order
  streaks,     \* MemStorage.streaks, in insertion order
  req,         \* the in-flight POST /api/logs requests, one per slot
  lastWrite,   \* history: per user, the latest createOrUpdateStreak write (its log's date,
               \* the day it ran, whether the record had changed since the handler read
               \* it, the record it stored)
  dayStart,    \* history: per user, getStreak as of the last day change
  dirty,       \* history: a request was between its reads and its write at the last day change
  \* ---- statistics
  weekly,      \* the latest getWeeklyStats result (<<>> before the first call)
  daily,       \* the latest getDailyStats result (<<>> before the first call)
  monthly,     \* the latest getMonthlyStats result (<<>> before the first call)
  \* server, continued
  activityTypes, \* MemStorage.activityTypes, in insertion order
  tz,          \* the server's time-zone offset from UTC, in hours
  res          \* the latest response of a GET route (<<>> before the first one)

cvars == <<formToday, logs, streak, nextId, upd, form>>
svars == <<activityLogs, streaks, req, lastWrite, dayStart, dirty>>
xvars == <<weekly, daily, monthly, activityTypes, tz, res>>
vars == <<side, now, formToday, logs, streak, nextId, upd, form,
          activityLogs, streaks, req, lastWrite, dayStart, dirty,
          weekly, daily, monthly, activityTypes, tz, res>>

(***************************************************************************)
(* Bounds                                                                  *)
(***************************************************************************)
MaxDay == 4        \* the clock runs over days 1..MaxDay
MaxLogs == 3       \* logs the browser creates in one behaviour
MaxSrvLogs == 2    \* POST /api/logs requests the server receives in one behaviour
MaxReq == 2        \* requests in flight at once
MaxStatLogs == 2   \* logs in a snapshot handed to the rollups

\* null (lastActiveDate: string | null)
NoDate == -1

Max(a, b) == IF a >= b THEN a ELSE b

\* userId: null
NullUser == "null"

\* The names and categories of the ten default activity types, in order
DefaultNames ==
  <<"Work", "Study", "Exercise", "Sleep", "Reading",
    "Social Media", "Gaming", "Meditation", "Cooking", "Hobbies">>
DefaultCategories ==
  <<"productive", "productive", "health", "health", "productive",
    "leisure", "leisure", "health", "other", "leisure">>

\* Browser: defaultActivities, ids "1" .. "10"
ClientDefaultIds == <<"1", "2", "3", "4", "5", "6", "7", "8", "9", "10">>
defaultActivities ==
  [i \in 1..10 |-> [id |-> ClientDefaultIds[i], userId |-> NullUser,
                    name |-> DefaultNames[i], category |-> DefaultCategories[i],
                    isDefault |-> TRUE]]

\* Server: MemStorage.initializeDefaultActivities, ids `default-${index + 1}`
ServerDefaultIds ==
  <<"default-1", "default-2", "default-3", "default-4", "default-5",
    "default-6", "default-7", "default-8", "default-9", "default-10">>
initializeDefaultActivities ==
  [i \in 1..10 |-> [id |-> ServerDefaultIds[i], userId |-> NullUser,
                    name |-> DefaultNames[i], category |-> DefaultCategories[i],
                    isDefault |-> TRUE]]

(***************************************************************************)
(* Browser: ActivityProvider (activity-context) and the AddActivity page   *)
(***************************************************************************)

\* useState<Streak> initial value with nothing persisted
InitialStreak == [currentStreak |-> 0, longestStreak |-> 0, lastActiveDate |-> NoDate]

\* format(new Date(), "yyyy-MM-dd"): the wall-clock day
clientToday(clock) == clock

\* format(new Date(Date.now() - 86400000), "yyyy-MM-dd")
clientYesterday(clock) == clock - 1

\* Mutant: longestStreak is carried over instead of Math.max(newStreak, longest).
updateStreakNoMax(prev, date, clock) ==
  LET today == clientToday(clock)
      yesterday == clientYesterday(clock)
      newStreak == IF prev.lastActiveDate = yesterday \/ prev.lastActiveDate = NoDate
                   THEN prev.currentStreak + 1
                   ELSE 1
  IN IF prev.lastActiveDate = today THEN prev
     ELSE [currentStreak |-> newStreak,
           longestStreak |-> prev.longestStreak,
           lastActiveDate |-> today]

\* Mutant: no "already counted today" check, a same-day call restarts the streak.
updateStreakNoToday(prev, date, clock) ==
  LET today == clientToday(clock)
      yesterday == clientYesterday(clock)
      newStreak == IF prev.lastActiveDate = yesterday \/ prev.lastActiveDate = NoDate
                   THEN prev.currentStreak + 1
                   ELSE 1
  IN [currentStreak |-> newStreak,
      longestStreak |-> Max(newStreak, prev.longestStreak),
      lastActiveDate |-> today]

\* Mutant: a gap keeps counting instead of resetting to 1.
updateStreakNoReset(prev, date, clock) ==
  LET today == clientToday(clock)
      newStreak == prev.currentStreak + 1
  IN IF prev.lastActiveDate = today THEN prev
     ELSE [currentStreak |-> newStreak,
           longestStreak |-> Max(newStreak, prev.longestStreak),
           lastActiveDate |-> today]

\* updateStreak(date): the setStreak updater.  `date` is not read: today and
\* yesterday come from the clock.
updateStreak(prev, date, clock) ==
  LET today == clientToday(clock)
      yesterday == clientYesterday(clock)
      newStreak == IF prev.lastActiveDate = yesterday \/ prev.lastActiveDate = NoDate
                   THEN prev.currentStreak + 1
                   ELSE IF prev.lastActiveDate # today
                        THEN 1
                        ELSE prev.currentStreak
  IN IF prev.lastActiveDate = today THEN prev
     ELSE [currentStreak |-> newStreak,
           longestStreak |-> Max(newStreak, prev.longestStreak),
           lastActiveDate |-> today]

\* addLog(log): append the log, then updateStreak(log.date).
\* (userId, notes and createdAt are stored and never read by the rollups or the streak.)
addLog(log) ==
  /\ logs' = Append(logs, [id |-> nextId + 1,
                           activityTypeId |-> log.activityTypeId,
                           date |-> log.date,
                           minutes |-> log.minutes])
  /\ nextId' = nextId + 1
  /\ streak' = updateStreak(streak, log.date, now)
  /\ upd' = [called |-> TRUE, prev |-> streak, date |-> log.date, clock |-> now,
             rep |-> upd.called /\ upd.date = log.date /\ upd.clock = now]

\* deleteLog(logId)
deleteLog(logId) ==
  logs' = SelectSeq(logs, LAMBDA log : log.id # logId)

\* useForm({ defaultValues: { hours: 0, minutes: 30 } }), also what form.reset() restores
defaultValues == [hours |-> 0, minutes |-> 30]

\* The activity types and durations the form is submitted with
FormActivityIds == {"1"}
FormHours == {0, 1}
FormMinutes == {0, 30}

\* Mutant: a submission of 0 minutes is logged like any other
onSubmitNoCheck(a, h, m) ==
  /\ side = "client"
  /\ nextId < MaxLogs
  /\ addLog([activityTypeId |-> a, date |-> formToday, minutes |-> h * 60 + m])
  /\ formToday' = now
  /\ form' = defaultValues
  /\ UNCHANGED <<side, now, svars, xvars>>

\* AddActivity.onSubmit(data); the context change re-renders the page, which
\* recomputes `today`.
onSubmit(a, h, m) ==
  /\ side = "client"
  /\ nextId < MaxLogs
  /\ LET totalMinutes == h * 60 + m
     IN IF totalMinutes = 0
        THEN UNCHANGED <<logs, nextId, streak, upd, formToday, form>>
        ELSE /\ addLog([activityTypeId |-> a, date |-> formToday, minutes |-> totalMinutes])
             /\ formToday' = now
             /\ form' = defaultValues
  /\ UNCHANGED <<side, now, svars, xvars>>

\* AddActivity.handleDeleteLog(logId), offered for the rows of todayLogs
handleDeleteLog(logId) ==
  /\ side = "client"
  /\ \E i \in 1..Len(logs) : logs[i].id = logId /\ logs[i].date = formToday
  /\ deleteLog(logId)
  /\ formToday' = now
  /\ UNCHANGED <<side, now, streak, nextId, upd, form, svars, xvars>>

\* AddActivity renders again (navigation, any state change): today = format(new Date())
Render ==
  /\ side = "client"
  /\ formToday # now
  /\ formToday' = now
  /\ UNCHANGED <<side, now, logs, streak, nextId, upd, form, svars, xvars>>

(***************************************************************************)
(* Server: MemStorage and POST /api/logs.  Every `await` of the handler    *)
(* and of createOrUpdateStreak ends a step: other requests, and midnight,  *)
(* may come in between.  An optional value (T | undefined) is a sequence   *)
(* of length 0 or 1.                                                       *)
(***************************************************************************)
Users == {"u1", "u2"}
Slots == 1..MaxReq

\* new Date().toISOString().split("T")[0]: the UTC day
serverToday(clock) == clock

\* new Date(Date.now() - 86400000).toISOString().split("T")[0]
serverYesterday(clock) == clock - 1

\* MemStorage.getStreak(userId): Array.from(values()).find(...), the first match
getStreak(ss, userId) ==
  LET idx == {i \in 1..Len(ss) : ss[i].userId = userId}
  IN IF idx = {} THEN <<>>
     ELSE <<ss[CHOOSE i \in idx : \A j \in idx : i <= j]>>

\* Mutant: a log on an already counted day counts again.
streakTransitionRecount(snap, userId, today, yesterday) ==
  LET currentStreak ==
        IF snap # <<>>
        THEN IF snap[1].lastActiveDate = today \/ snap[1].lastActiveDate = yesterday
             THEN snap[1].currentStreak + 1
             ELSE 1
        ELSE 1
      longestStreak == IF snap # <<>> THEN snap[1].longestStreak ELSE 0
  IN [userId |-> userId,
      currentStreak |-> currentStreak,
      longestStreak |-> Max(currentStreak, longestStreak),
      lastActiveDate |-> today]

\* POST /api/logs, the streak update: the argument of createOrUpdateStreak
\* computed from the streak read by the handler.
streakTransition(snap, userId, today, yesterday) ==
  LET currentStreak ==
        IF snap # <<>>
        THEN IF snap[1].lastActiveDate = today
             THEN snap[1].currentStreak
             ELSE IF snap[1].lastActiveDate = yesterday
                  THEN snap[1].currentStreak + 1
                  ELSE 1
        ELSE 1
      longestStreak == IF snap # <<>> THEN snap[1].longestStreak ELSE 0
  IN [userId |-> userId,
      currentStreak |-> currentStreak,
      longestStreak |-> Max(currentStreak, longestStreak),
      lastActiveDate |-> today]

\* a ?? b on a nullable date
Nullish(a, b) == IF a # NoDate THEN a ELSE b

\* Map.set(id, value): replaces the value of an existing key in place, else appends
MapSet(ss, rec) ==
  IF \E i \in 1..Len(ss) : ss[i].id = rec.id
  THEN [i \in 1..Len(ss) |-> IF ss[i].id = rec.id THEN rec ELSE ss[i]]
  ELSE Append(ss, rec)

\* MemStorage.createOrUpdateStreak after its `await this.getStreak(...)`: the
\* record it stores and returns.  `found` is what that read returned;
\* randomUUID() is the next unused number.
upsertedStreak(ss, found, streakData) ==
  IF found # <<>>
  THEN [id |-> found[1].id,
        userId |-> found[1].userId,
        currentStreak |-> streakData.currentStreak,
        longestStreak |-> streakData.longestStreak,
        lastActiveDate |-> Nullish(streakData.lastActiveDate, found[1].lastActiveDate)]
  ELSE [id |-> Len(ss) + 1,
        userId |-> streakData.userId,
        currentStreak |-> streakData.currentStreak,
        longestStreak |-> streakData.longestStreak,
        lastActiveDate |-> streakData.lastActiveDate]

\* MemStorage.createOrUpdateStreak after its await: this.streaks.set(id, streak)
createOrUpdateStreak(ss, found, streakData) ==
  MapSet(ss, upsertedStreak(ss, found, streakData))

IdleReq == [pc |-> "idle", userId |-> "", date |-> NoDate, today |-> NoDate,
            streak |-> <<>>, data |-> <<>>, found |-> <<>>]

NoWrite == [date |-> NoDate, clock |-> NoDate, stale |-> FALSE, rec |-> <<>>]

\* The activity type and minutes of the request bodies
BodyActivityTypeIds == {"default-1"}
BodyMinutes == 30

\* randomUUID() for a log: a number no stored log has
NextLogId(als) ==
  IF als = <<>> THEN 1
  ELSE 1 + (CHOOSE m \in {als[i].id : i \in 1..Len(als)} :
              \A i \in 1..Len(als) : als[i].id <= m)

\* MemStorage.createActivityLog(log)
createActivityLog(als, log) ==
  Append(als, [id |-> NextLogId(als), userId |-> log.userId,
               activityTypeId |-> log.activityTypeId, date |-> log.date,
               minutes |-> log.minutes])

\* The dates a request body may carry: a past day, today, a future day
RequestDates == {now - 1, now, now + 1}

\* POST /api/logs up to `await storage.createActivityLog(data)`: the log is stored.
\* (A new request takes the lowest free slot: slots only name the requests in flight.)
PostLogs(r, userId, typeId, date) ==
  /\ side = "server"
  /\ req[r].pc = "idle"
  /\ \A q \in Slots : q < r => req[q].pc # "idle"
  /\ NextLogId(activityLogs) <= MaxSrvLogs
  /\ activityLogs' = createActivityLog(activityLogs,
                                       [userId |-> userId, activityTypeId |-> typeId,
                                        date |-> date, minutes |-> BodyMinutes])
  /\ req' = [req EXCEPT ![r] = [IdleReq EXCEPT !.pc = "afterCreate",
                                               !.userId = userId, !.date = date]]
  /\ UNCHANGED <<side, now, cvars, streaks, lastWrite, dayStart, dirty, xvars>>

\* ... `today` is read from the clock; if data.date === today, up to
\* `await storage.getStreak(req.userId)`; otherwise res.json(log).
PostLogsToday(r) ==
  /\ side = "server"
  /\ req[r].pc = "afterCreate"
  /\ LET today == serverToday(now)
     IN IF req[r].date = today
        THEN req' = [req EXCEPT ![r].pc = "afterGet",
                                ![r].today = today,
                                ![r].streak = getStreak(streaks, req[r].userId)]
        ELSE req' = [req EXCEPT ![r] = IdleReq]
  /\ UNCHANGED <<side, now, cvars, activityLogs, streaks, lastWrite, dayStart, dirty, xvars>>

\* ... `yesterday` is read from the clock, the new values are computed, and
\* createOrUpdateStreak runs up to its `await this.getStreak(...)`.
PostLogsStreak(r) ==
  /\ side = "server"
  /\ req[r].pc = "afterGet"
  /\ req' = [req EXCEPT ![r].pc = "inUpsert",
                        ![r].data = <<streakTransition(req[r].streak, req[r].userId,
                                                       req[r].today, serverYesterday(now))>>,
                        ![r].found = getStreak(streaks, req[r].userId)]
  /\ UNCHANGED <<side, now, cvars, activityLogs, streaks, lastWrite, dayStart, dirty, xvars>>

\* ... createOrUpdateStreak writes the record; res.json(log).
PostLogsUpsert(r) ==
  /\ side = "server"
  /\ req[r].pc = "inUpsert"
  /\ streaks' = createOrUpdateStreak(streaks, req[r].found, req[r].data[1])
  /\ lastWrite' = [lastWrite EXCEPT ![req[r].userId] =
                     [date |-> req[r].date, clock |-> now,
                      stale |-> req[r].streak # getStreak(streaks, req[r].userId),
                      rec |-> <<upsertedStreak(streaks, req[r].found, req[r].data[1])>>]]
  /\ req' = [req EXCEPT ![r] = IdleReq]
  /\ UNCHANGED <<side, now, cvars, activityLogs, dayStart, dirty, xvars>>

\* Midnight: the calendar day advances.
Tick ==
  /\ now < MaxDay
  /\ now' = now + 1
  /\ dayStart' = [u \in Users |-> getStreak(streaks, u)]
  /\ dirty' = \E r \in Slots : req[r].pc \in {"afterGet", "inUpsert"}
  /\ UNCHANGED <<side, cvars, activityLogs, streaks, req, lastWrite, xvars>>

Init ==
  /\ side \in {"client", "server"}
  /\ now = 1
  /\ formToday = 1
  /\ logs = <<>>
  /\ streak = InitialStreak
  /\ nextId = 0
  /\ form = defaultValues
  /\ upd = [called |-> FALSE, prev |-> InitialStreak, date |-> NoDate, clock |-> NoDate,
            rep |-> FALSE]
  /\ activityLogs = <<>>
  /\ streaks = <<>>
  /\ req = [r \in Slots |-> IdleReq]
  /\ lastWrite = [u \in Users |-> NoWrite]
  /\ dayStart = [u \in Users |-> <<>>]
  /\ dirty = FALSE
  /\ weekly = <<>>
  /\ daily = <<>>
  /\ monthly = <<>>
  /\ activityTypes = initializeDefaultActivities
  /\ tz = 0
  /\ res = <<>>

Next ==
  \/ \E a \in FormActivityIds, h \in FormHours, m \in FormMinutes : onSubmit(a, h, m)
  \/ \E id \in 1..MaxLogs : handleDeleteLog(id)
  \/ Render
  \/ \E r \in Slots, u \in Users, t \in BodyActivityTypeIds, d \in RequestDates :
       PostLogs(r, u, t, d)
  \/ \E r \in Slots : PostLogsToday(r)
  \/ \E r \in Slots : PostLogsStreak(r)
  \/ \E r \in Slots : PostLogsUpsert(r)
  \/ Tick

Spec == Init /\ [][Next]_vars

(***************************************************************************)
(* Streak properties                                                       *)
(***************************************************************************)

\* The three streak values of a stored record
Triple(rec) == [currentStreak |-> rec.currentStreak,
                longestStreak |-> rec.longestStreak,
                lastActiveDate |-> rec.lastActiveDate]

\* What GET /api/streak shows for a user with a record
Visible(u) == Triple(getStreak(streaks, u)[1])

\* C1: after every streak transition, in the browser and on the server (under
\* any interleaving of requests), longestStreak >= currentStreak.
C1_LongestAtLeastCurrent ==
  /\ streak.longestStreak >= streak.currentStreak
  /\ \A i \in 1..Len(streaks) : streaks[i].longestStreak >= streaks[i].currentStreak

\* A streak was broken and restarted: the longest streak exceeds the current one.
C1_Witness ==
  /\ side = "client"
  /\ upd.called
  /\ streak.currentStreak = 1
  /\ streak.longestStreak = 2

\* C2: a second streak transition for the same log date on the same calendar day
\* leaves the record exactly as the first one left it.  Browser: an addLog whose
\* date and clock day are those of the previous updateStreak call.  Server: the
\* createOrUpdateStreak write of a request whose handler read the record that
\* the previous write, of the same date and day, stored.
C2_Idempotent ==
  [][ /\ ( /\ side = "client"
           /\ nextId' = nextId + 1
           /\ upd.called /\ upd.date = formToday /\ upd.clock = now )
         => streak' = streak
      /\ \A r \in Slots :
           ( /\ req[r].pc = "inUpsert" /\ req'[r].pc = "idle"
             /\ lastWrite[req[r].userId].date = req[r].date
             /\ lastWrite[req[r].userId].clock = now
             /\ req[r].streak # <<>>
             /\ req[r].streak = lastWrite[req[r].userId].rec )
           => getStreak(streaks', req[r].userId) = getStreak(streaks, req[r].userId)
    ]_vars

\* A second log of the same date was added on the same day to a streak of 2 or more.
C2_Witness ==
  /\ side = "client"
  /\ upd.rep
  /\ streak.currentStreak >= 2

SingleRequest(prior, today) ==
  IF prior = <<>>
  THEN [currentStreak |-> 1, longestStreak |-> 1, lastActiveDate |-> today]
  ELSE IF prior[1].lastActiveDate = today
       THEN Triple(prior[1])
       ELSE IF prior[1].lastActiveDate = today - 1
            THEN [currentStreak |-> prior[1].currentStreak + 1,
                  longestStreak |-> Max(prior[1].longestStreak, prior[1].currentStreak + 1),
                  lastActiveDate |-> today]
            ELSE [currentStreak |-> 1,
                  longestStreak |-> Max(prior[1].longestStreak, 1),
                  lastActiveDate |-> today]

\* C4: a transition for a log dated the day after lastActiveDate adds exactly 1
\* to currentStreak; with no prior record or a null lastActiveDate it yields 1.
C4_IncrementAfterYesterday ==
  /\ ( /\ upd.called
       /\ upd.prev.lastActiveDate # NoDate
       /\ upd.prev.lastActiveDate = upd.date - 1 )
     => streak.currentStreak = upd.prev.currentStreak + 1
  /\ (upd.called /\ upd.prev.lastActiveDate = NoDate) => streak.currentStreak = 1
  /\ \A r \in Slots :
       req[r].pc = "inUpsert" =>
         /\ ( /\ req[r].streak # <<>>
              /\ req[r].streak[1].lastActiveDate = req[r].date - 1 )
            => req[r].data[1].currentStreak = req[r].streak[1].currentStreak + 1
         /\ req[r].streak = <<>> => req[r].data[1].currentStreak = 1

\* C5: the transition depends on the prior record and the log's date only:
\* whatever the wall-clock day, it leaves lastActiveDate at the log's date and
\* the record the rule gives when today and yesterday are taken from that date.
C5_FunctionOfLogDate ==
  /\ upd.called => streak.lastActiveDate = upd.date
  /\ upd.called => streak = SingleRequest(<<upd.prev>>, upd.date)
  /\ \A r \in Slots :
       req[r].pc = "inUpsert" => req[r].data[1].lastActiveDate = req[r].date

\* C6: recording a log whose date is not today leaves the streak record
\* unchanged, on the server and in the browser.
C6_OnlyTodayTouchesStreak ==
  /\ (upd.called /\ upd.date # upd.clock) => streak = upd.prev
  /\ \A r \in Slots :
       req[r].pc \in {"afterGet", "inUpsert"} => req[r].date = req[r].today

\* C7: under any interleaving of POST /api/logs requests the store holds at
\* most one Streak record per user.
C7_OneStreakPerUser ==
  \A u \in Users : Cardinality({i \in 1..Len(streaks) : streaks[i].userId = u}) <= 1

\* C8: once requests of a user for today have written the streak, in whatever
\* interleaving, GET /api/streak shows what a single such request would have
\* left on the record the day started with (days on which a request from the
\* day before was still between its read and its write are set aside).
C8_ConcurrentSameDay ==
  \A u \in Users :
    (~dirty /\ lastWrite[u].clock = now) => Visible(u) = SingleRequest(dayStart[u], now)

\* Two requests of one user read the streak before either wrote, and both wrote.
C8_Witness ==
  \E u \in Users : ~dirty /\ lastWrite[u].clock = now /\ lastWrite[u].stale

RECURSIVE ConsecutiveDays(_, _)
\* The number of consecutive days ending at d that each hold a log of ls
ConsecutiveDays(ls, d) ==
  IF d >= 0 /\ \E i \in 1..Len(ls) : ls[i].date = d
  THEN 1 + ConsecutiveDays(ls, d - 1)
  ELSE 0

\* C9: whenever lastActiveDate is set, currentStreak is the number of
\* consecutive days ending at lastActiveDate that each hold a stored log.
C9_StreakCountsLoggedDays ==
  streak.lastActiveDate # NoDate
    => streak.currentStreak = ConsecutiveDays(logs, streak.lastActiveDate)

(***************************************************************************)
(* Statistics: the rollups of ActivityProvider, over any persisted logs    *)
(***************************************************************************)

RECURSIVE SumMinutes(_)
\* reduce((sum, log) => sum + log.minutes, 0)
SumMinutes(ls) ==
  IF ls = <<>> THEN 0 ELSE ls[1].minutes + SumMinutes(Tail(ls))

RECURSIVE SumTotalMinutes(_)
\* reduce((sum, day) => sum + day.totalMinutes, 0)
SumTotalMinutes(ds) ==
  IF ds = <<>> THEN 0 ELSE ds[1].totalMinutes + SumTotalMinutes(Tail(ds))

\* Date.getDay(): 0 is Sunday (day 0 is a Monday)
getDay(d) == (d + 1) % 7

\* startOfWeek(date, { weekStartsOn: 1 })
startOfWeek(d) ==
  LET day == getDay(d)
      diff == (IF day < 1 THEN 7 ELSE 0) + day - 1
  IN d - diff

\* endOfWeek(date, { weekStartsOn: 1 })
endOfWeek(d) ==
  LET day == getDay(d)
      diff == (IF day < 1 THEN -7 ELSE 0) + 6 - (day - 1)
  IN d + diff

\* Mutant: the interval leaves out its last day.
eachDayOfIntervalOpen(start, end) ==
  [i \in 1..(end - start) |-> start + i - 1]

\* eachDayOfInterval({ start, end }): every day from start to end, both included
eachDayOfInterval(start, end) ==
  [i \in 1..(end - start + 1) |-> start + i - 1]

\* A quotient of two numbers, kept exact as numerator and denominator
Frac(n, d) == [num |-> n, den |-> d]

\* A key that is a canonical array index ("1" .. "10" among the ids in use)
\* as its number, any other key as -1
arrayIndex(key) ==
  CASE key = "1" -> 1 [] key = "2" -> 2 [] key = "3" -> 3 [] key = "4" -> 4
    [] key = "5" -> 5 [] key = "6" -> 6 [] key = "7" -> 7 [] key = "8" -> 8
    [] key = "9" -> 9 [] key = "10" -> 10 [] OTHER -> -1

\* Array.prototype.sort(compareFn), which is stable: the elements of s in
\* ascending order of their keys (key[i] is the key of s[i]), equal keys
\* staying in their order
StableSort(s, key) ==
  LET n == Len(s)
      pos(i) == 1 + Cardinality({j \in 1..n : \/ key[j] < key[i]
                                              \/ (key[j] = key[i] /\ j < i)})
  IN [k \in 1..n |-> s[CHOOSE i \in 1..n : pos(i) = k]]

\* sort((a, b) => b.minutes - a.minutes)
sortByMinutesDesc(s) == StableSort(s, [i \in 1..Len(s) |-> 0 - s[i].minutes])

RECURSIVE InsertionKeys(_, _)
\* The distinct keys of ks in the order of their first assignment
InsertionKeys(ks, seen) ==
  IF ks = <<>> THEN <<>>
  ELSE IF Head(ks) \in seen THEN InsertionKeys(Tail(ks), seen)
  ELSE <<Head(ks)>> \o InsertionKeys(Tail(ks), seen \cup {Head(ks)})

\* The own keys of an object whose properties were assigned in the order ks,
\* as Object.entries lists them: array-index keys in ascending numeric order,
\* then the other keys in the order of their first assignment
OwnKeys(ks) ==
  LET ins == InsertionKeys(ks, {})
      idx == SelectSeq(ins, LAMBDA k : arrayIndex(k) >= 0)
      str == SelectSeq(ins, LAMBDA k : arrayIndex(k) < 0)
  IN StableSort(idx, [i \in 1..Len(idx) |-> arrayIndex(idx[i])]) \o str

\* Object.entries(activityBreakdown) after
\* logs.forEach(log => activityBreakdown[log.activityTypeId] = (... || 0) + log.minutes)
activityBreakdownEntries(ls) ==
  LET keys == OwnKeys([i \in 1..Len(ls) |-> ls[i].activityTypeId])
  IN [i \in 1..Len(keys) |->
        [activityTypeId |-> keys[i],
         minutes |-> SumMinutes(SelectSeq(ls, LAMBDA log : log.activityTypeId = keys[i]))]]

\* activities.find(a => a.id === id), as an optional value
findActivity(types, id) ==
  LET m == SelectSeq(types, LAMBDA t : t.id = id)
  IN IF m = <<>> THEN <<>> ELSE <<m[1]>>

\* getActivityById(id): the browser's activities are the default ones
getActivityById(id) == findActivity(defaultActivities, id)

RECURSIVE SumEntryMinutes(_)
\* reduce((sum, a) => sum + a.minutes, 0)
SumEntryMinutes(es) ==
  IF es = <<>> THEN 0 ELSE es[1].minutes + SumEntryMinutes(Tail(es))

\* Mutant: the percentage divides whatever the total is
percentageUnguarded(minutes, totalMinutes) == Frac(minutes * 100, totalMinutes)

\* totalMinutes > 0 ? (minutes / totalMinutes) * 100 : 0
percentage(minutes, totalMinutes) ==
  IF totalMinutes > 0 THEN Frac(minutes * 100, totalMinutes) ELSE Frac(0, 1)

\* activitiesWithTime: Object.entries(activityBreakdown).map(...).filter(a => a.activityType)
activitiesWithTime(dayLogs, totalMinutes, types) ==
  LET es == activityBreakdownEntries(dayLogs)
      joined == [i \in 1..Len(es) |->
                   [activityTypeId |-> es[i].activityTypeId,
                    activityType |-> findActivity(types, es[i].activityTypeId),
                    minutes |-> es[i].minutes,
                    percentage |-> percentage(es[i].minutes, totalMinutes)]]
  IN SelectSeq(joined, LAMBDA e : e.activityType # <<>>)

\* filter(a => a.activityType.category === category).reduce((sum, a) => sum + a.minutes, 0)
categoryMinutes(as, category) ==
  SumEntryMinutes(SelectSeq(as, LAMBDA e : e.activityType[1].category = category))

\* The daily rollup of dayLogs joined to types
dailyRollup(dayLogs, types, date) ==
  LET totalMinutes == SumMinutes(dayLogs)
      as == activitiesWithTime(dayLogs, totalMinutes, types)
  IN [date |-> date,
      totalMinutes |-> totalMinutes,
      activities |-> as,
      productiveMinutes |-> categoryMinutes(as, "productive"),
      leisureMinutes |-> categoryMinutes(as, "leisure")]

\* getDailyStats(date)
getDailyStats(ls, date) ==
  dailyRollup(SelectSeq(ls, LAMBDA log : log.date = date), defaultActivities, date)

\* MemStorage.getActivityLogsByDate(userId, date)
getActivityLogsByDate(als, userId, date) ==
  SelectSeq(als, LAMBDA log : log.userId = userId /\ log.date = date)

\* MemStorage.getActivityTypes(userId)
getActivityTypes(ats, userId) ==
  SelectSeq(ats, LAMBDA activity : activity.isDefault \/ activity.userId = userId)

\* subWeeks(date, 1)
subWeeks(d) == d - 7

\* Mutant: a new activity counts as no change
changePercentageNoNew(minutes, previousWeekMinutes) ==
  IF previousWeekMinutes > 0
  THEN Frac((minutes - previousWeekMinutes) * 100, previousWeekMinutes)
  ELSE Frac(0, 1)

\* previousWeekMinutes > 0 ? ((minutes - previousWeekMinutes) / previousWeekMinutes) * 100
\*                         : minutes > 0 ? 100 : 0
changePercentage(minutes, previousWeekMinutes) ==
  IF previousWeekMinutes > 0
  THEN Frac((minutes - previousWeekMinutes) * 100, previousWeekMinutes)
  ELSE IF minutes > 0 THEN Frac(100, 1) ELSE Frac(0, 1)

\* Math.round of the quotient f (its denominator is positive)
round(f) == (2 * f.num + f.den) \div (2 * f.den)

\* Math.abs
abs(n) == IF n < 0 THEN 0 - n ELSE n

\* A sentence of the insights or suggestions: its template, and the activity
\* name and the number the template is filled with ("" and 0 when it has none)
Sentence(kind, name, percent) == [kind |-> kind, name |-> name, percent |-> percent]

\* insights.slice(0, n), suggestions.slice(0, n)
slice(s, n) == SubSeq(s, 1, IF Len(s) < n THEN Len(s) ELSE n)

\* The part of the insights that generateWeeklyInsights and generateInsights
\* share: if (leisureTotal > totalMinutes * 0.4) push; if (healthTotal < 180) push
balanceInsights(activityBreakdown, totalMinutes) ==
  LET leisureTotal == categoryMinutes(activityBreakdown, "leisure")
      healthTotal == categoryMinutes(activityBreakdown, "health")
  IN (IF 10 * leisureTotal > 4 * totalMinutes
      THEN <<Sentence("leisure", "", 0)>> ELSE <<>>)
     \o (IF healthTotal < 180 THEN <<Sentence("health", "", 0)>> ELSE <<>>)

\* Mutant: the insights are not cut to three
generateWeeklyInsightsUncut(activityBreakdown, totalMinutes) ==
  LET gt(f, n) == f.num > n * f.den
      lt(f, n) == f.num < n * f.den
      changed == SelectSeq(activityBreakdown, LAMBDA a : \/ gt(a.changePercentage, 20)
                                                         \/ lt(a.changePercentage, -20))
      deltas == [i \in 1..Len(changed) |->
                   IF gt(changed[i].changePercentage, 20)
                   THEN Sentence("more", changed[i].activityType[1].name,
                                 round(changed[i].changePercentage))
                   ELSE Sentence("reduced", changed[i].activityType[1].name,
                                 abs(round(changed[i].changePercentage)))]
      insights == deltas \o balanceInsights(activityBreakdown, totalMinutes)
  IN IF insights = <<>> THEN <<Sentence("balanced", "", 0)>> ELSE insights

\* generateWeeklyInsights(activityBreakdown, totalMinutes)
generateWeeklyInsights(activityBreakdown, totalMinutes) ==
  LET gt(f, n) == f.num > n * f.den
      lt(f, n) == f.num < n * f.den
      changed == SelectSeq(activityBreakdown, LAMBDA a : \/ gt(a.changePercentage, 20)
                                                         \/ lt(a.changePercentage, -20))
      deltas == [i \in 1..Len(changed) |->
                   IF gt(changed[i].changePercentage, 20)
                   THEN Sentence("more", changed[i].activityType[1].name,
                                 round(changed[i].changePercentage))
                   ELSE Sentence("reduced", changed[i].activityType[1].name,
                                 abs(round(changed[i].changePercentage)))]
      insights == deltas \o balanceInsights(activityBreakdown, totalMinutes)
  IN slice(IF insights = <<>> THEN <<Sentence("balanced", "", 0)>> ELSE insights, 3)

\* generateInsights(activityBreakdown, totalMinutes) of the server
generateInsights(activityBreakdown, totalMinutes) ==
  LET insights == balanceInsights(activityBreakdown, totalMinutes)
  IN slice(IF insights = <<>> /\ totalMinutes > 0
           THEN <<Sentence("balanced", "", 0)>> ELSE insights, 3)

\* getWeeklyStats: currentWeekByActivity, prevWeekByActivity and activityBreakdown
weeklyActivityBreakdown(ls, weekStart, weekEnd) ==
  LET prevWeekStart == subWeeks(weekStart)
      prevWeekEnd == subWeeks(weekEnd)
      current == SelectSeq(ls, LAMBDA log : log.date >= weekStart /\ log.date <= weekEnd)
      prev == SelectSeq(ls, LAMBDA log : /\ ~(log.date >= weekStart /\ log.date <= weekEnd)
                                         /\ log.date >= prevWeekStart
                                         /\ log.date <= prevWeekEnd)
      es == activityBreakdownEntries(current)
      prevMinutes(id) == SumMinutes(SelectSeq(prev, LAMBDA log : log.activityTypeId = id))
      joined == [i \in 1..Len(es) |->
                   [activityTypeId |-> es[i].activityTypeId,
                    activityType |-> getActivityById(es[i].activityTypeId),
                    minutes |-> es[i].minutes,
                    previousWeekMinutes |-> prevMinutes(es[i].activityTypeId),
                    changePercentage |-> changePercentage(es[i].minutes,
                                                          prevMinutes(es[i].activityTypeId))]]
  IN sortByMinutesDesc(SelectSeq(joined, LAMBDA e : e.activityType # <<>>))

\* getWeeklyStats(date)
getWeeklyStats(ls, date) ==
  LET weekStart == startOfWeek(date)
      weekEnd == endOfWeek(date)
      daysInWeek == eachDayOfInterval(weekStart, weekEnd)
      dailyBreakdown == [i \in 1..Len(daysInWeek) |-> getDailyStats(ls, daysInWeek[i])]
  IN [startDate |-> weekStart,
      endDate |-> weekEnd,
      totalMinutes |-> SumTotalMinutes(dailyBreakdown),
      dailyBreakdown |-> dailyBreakdown,
      activityBreakdown |-> weeklyActivityBreakdown(ls, weekStart, weekEnd),
      insights |-> generateWeeklyInsights(weeklyActivityBreakdown(ls, weekStart, weekEnd),
                                          SumTotalMinutes(dailyBreakdown))]

(***************************************************************************)
(* The monthly rollup.  Day 0 is Monday 2024-01-01; the calendar below     *)
(* covers January to April 2024.  A server Date is a number of hours since *)
(* 2024-01-01T00:00Z; its local fields are those of the hour shifted by    *)
(* the time-zone offset tz.                                                *)
(***************************************************************************)

\* The first days of 2024-01, 2024-02, 2024-03, 2024-04, 2024-05
MonthStarts == <<0, 31, 60, 91, 121>>

\* format(date, "yyyy-MM"), as the number of the month
monthOf(d) == CHOOSE m \in 1..(Len(MonthStarts) - 1) : MonthStarts[m] <= d /\ d < MonthStarts[m + 1]

\* startOfMonth(date)
startOfMonth(d) == MonthStarts[monthOf(d)]

\* endOfMonth(date)
endOfMonth(d) == MonthStarts[monthOf(d) + 1] - 1

\* sortedByMinutes[k]?.date || "" (the empty string is NoDate)
dateOrEmpty(es, k) == IF k >= 1 /\ k <= Len(es) THEN es[k].date ELSE NoDate

\* Mutant: the activities are not sorted by their minutes
topActivitiesUnsorted(monthLogs, types) ==
  LET es == activityBreakdownEntries(monthLogs)
      joined == [i \in 1..Len(es) |->
                   [activityTypeId |-> es[i].activityTypeId,
                    activityType |-> findActivity(types, es[i].activityTypeId),
                    minutes |-> es[i].minutes]]
      listed == SelectSeq(joined, LAMBDA e : e.activityType # <<>>)
  IN SubSeq(listed, 1, IF Len(listed) < 5 THEN Len(listed) ELSE 5)

\* Object.entries(activityTotals).map(...).filter(a => a.activityType)
\*   .sort((a, b) => b.minutes - a.minutes).slice(0, 5)
topActivities(monthLogs, types) ==
  LET es == activityBreakdownEntries(monthLogs)
      joined == [i \in 1..Len(es) |->
                   [activityTypeId |-> es[i].activityTypeId,
                    activityType |-> findActivity(types, es[i].activityTypeId),
                    minutes |-> es[i].minutes]]
      sorted == sortByMinutesDesc(SelectSeq(joined, LAMBDA e : e.activityType # <<>>))
  IN SubSeq(sorted, 1, IF Len(sorted) < 5 THEN Len(sorted) ELSE 5)

\* topActivities.find(a => a.activityType.name === ... || ...), as an optional value
findNamed(activities, names) ==
  LET m == SelectSeq(activities, LAMBDA a : a.activityType[1].name \in names)
  IN IF m = <<>> THEN <<>> ELSE <<m[1]>>

\* The suggestions that generateMonthlySuggestions and generateSuggestions
\* share: the limit, the sleep and the exercise suggestion
habitSuggestions(activities, totalMinutes) ==
  LET leisureActivity == findNamed(activities, {"Social Media", "Gaming"})
      sleepActivity == findNamed(activities, {"Sleep"})
      exerciseActivity == findNamed(activities, {"Exercise"})
  IN (IF leisureActivity # <<>> /\ 4 * leisureActivity[1].minutes > totalMinutes
      THEN <<Sentence("limit", leisureActivity[1].activityType[1].name, 0)>> ELSE <<>>)
     \o (IF sleepActivity = <<>> \/ sleepActivity[1].minutes < 420 * 30
         THEN <<Sentence("sleep", "", 0)>> ELSE <<>>)
     \o (IF exerciseActivity = <<>> \/ exerciseActivity[1].minutes < 600
         THEN <<Sentence("exercise", "", 0)>> ELSE <<>>)

\* Mutant: the suggestions are cut to three
generateMonthlySuggestionsCut3(activities, totalMinutes) ==
  LET productiveTotal == categoryMinutes(activities, "productive")
      suggestions ==
        habitSuggestions(activities, totalMinutes)
        \o (IF 2 * productiveTotal > totalMinutes
            THEN <<Sentence("productive", "", 0)>> ELSE <<>>)
  IN slice(IF suggestions = <<>> THEN <<Sentence("generic", "", 0)>> ELSE suggestions, 3)

\* generateMonthlySuggestions(topActivities, totalMinutes)
generateMonthlySuggestions(activities, totalMinutes) ==
  LET productiveTotal == categoryMinutes(activities, "productive")
      suggestions ==
        habitSuggestions(activities, totalMinutes)
        \o (IF 2 * productiveTotal > totalMinutes
            THEN <<Sentence("productive", "", 0)>> ELSE <<>>)
  IN slice(IF suggestions = <<>> THEN <<Sentence("generic", "", 0)>> ELSE suggestions, 4)

\* generateSuggestions(topActivities, totalMinutes) of the server
generateSuggestions(activities, totalMinutes) ==
  LET suggestions == habitSuggestions(activities, totalMinutes)
  IN slice(IF suggestions = <<>> THEN <<Sentence("generic", "", 0)>> ELSE suggestions, 4)

\* getMonthlyStats(date)
getMonthlyStats(ls, date) ==
  LET monthStart == startOfMonth(date)
      monthEnd == endOfMonth(date)
      month == monthOf(date)
      daysInMonth == eachDayOfInterval(monthStart, monthEnd)
      dailyHeatmap == [i \in 1..Len(daysInMonth) |->
                         [date |-> daysInMonth[i],
                          minutes |-> SumMinutes(SelectSeq(ls, LAMBDA log :
                                                   log.date = daysInMonth[i]))]]
      sortedByMinutes == sortByMinutesDesc(SelectSeq(dailyHeatmap, LAMBDA d : d.minutes > 0))
  IN [month |-> month,
      totalMinutes |-> SumEntryMinutes(dailyHeatmap),
      dailyHeatmap |-> dailyHeatmap,
      mostProductiveDay |-> dateOrEmpty(sortedByMinutes, 1),
      leastProductiveDay |-> dateOrEmpty(sortedByMinutes, Len(sortedByMinutes)),
      topActivities |-> topActivities(SelectSeq(ls, LAMBDA log : monthOf(log.date) = month),
                                      defaultActivities),
      suggestions |->
        generateMonthlySuggestions(
          topActivities(SelectSeq(ls, LAMBDA log : monthOf(log.date) = month),
                        defaultActivities),
          SumEntryMinutes(dailyHeatmap))]

\* new Date("yyyy-MM-dd"): midnight UTC of the day
parseDate(d) == 24 * d

\* The local calendar day of an instant (getFullYear, getMonth, getDate, getDay)
localDay(t, offset) == (t + offset) \div 24

\* Local midnight of a local calendar day (new Date(y, m, d), setHours(0, 0, 0, 0))
localMidnight(day, offset) == 24 * day - offset

\* toISOString().split("T")[0]: the UTC calendar day of an instant
toISODate(t) == t \div 24

\* MemStorage.getActivityLogsByDateRange(userId, startDate, endDate)
getActivityLogsByDateRange(als, userId, startDate, endDate) ==
  SelectSeq(als, LAMBDA log : /\ log.userId = userId
                              /\ log.date >= startDate /\ log.date <= endDate)

\* Object.entries(dailyHeatmap) after
\* logs.forEach(log => dailyHeatmap[log.date] = (dailyHeatmap[log.date] || 0) + log.minutes):
\* the dates are no array indices, so the order is that of first assignment
dailyHeatmapEntries(ls) ==
  LET keys == InsertionKeys([i \in 1..Len(ls) |-> ls[i].date], {})
  IN [i \in 1..Len(keys) |->
        [date |-> keys[i],
         minutes |-> SumMinutes(SelectSeq(ls, LAMBDA log : log.date = keys[i]))]]

\* GET /api/activity/weekly: the response body
apiActivityWeekly(als, ats, userId, dateParam, offset) ==
  LET date == parseDate(dateParam)
      dayOfWeek == getDay(localDay(date, offset))
      diff == IF dayOfWeek = 0 THEN -6 ELSE 1 - dayOfWeek
      weekStart == localMidnight(localDay(date, offset) + diff, offset)
      weekEnd == localMidnight(localDay(weekStart, offset) + 6, offset)
      startDate == toISODate(weekStart)
      endDate == toISODate(weekEnd)
      ls == getActivityLogsByDateRange(als, userId, startDate, endDate)
      activities == getActivityTypes(ats, userId)
      es == activityBreakdownEntries(ls)
      joined == [i \in 1..Len(es) |->
                   [activityTypeId |-> es[i].activityTypeId,
                    activityType |-> findActivity(activities, es[i].activityTypeId),
                    minutes |-> es[i].minutes,
                    previousWeekMinutes |-> 0,
                    changePercentage |-> Frac(0, 1)]]
      breakdownWithTypes == sortByMinutesDesc(SelectSeq(joined, LAMBDA e : e.activityType # <<>>))
  IN [startDate |-> startDate,
      endDate |-> endDate,
      totalMinutes |-> SumMinutes(ls),
      activityBreakdown |-> breakdownWithTypes,
      insights |-> generateInsights(breakdownWithTypes, SumMinutes(ls))]

\* GET /api/activity/monthly: the response body
apiActivityMonthly(als, ats, userId, dateParam, offset) ==
  LET date == parseDate(dateParam)
      monthStart == localMidnight(startOfMonth(localDay(date, offset)), offset)
      monthEnd == localMidnight(endOfMonth(localDay(date, offset)), offset)
      startDate == toISODate(monthStart)
      endDate == toISODate(monthEnd)
      month == monthOf(localDay(date, offset))
      ls == getActivityLogsByDateRange(als, userId, startDate, endDate)
      activities == getActivityTypes(ats, userId)
      dailyHeatmap == dailyHeatmapEntries(ls)
      heatmapArray == sortByMinutesDesc(dailyHeatmap)
      positive == SelectSeq(heatmapArray, LAMBDA d : d.minutes > 0)
  IN [month |-> month,
      totalMinutes |-> SumMinutes(ls),
      dailyHeatmap |-> dailyHeatmap,
      mostProductiveDay |-> dateOrEmpty(heatmapArray, 1),
      leastProductiveDay |-> dateOrEmpty(positive, Len(positive)),
      topActivities |-> topActivities(ls, activities),
      suggestions |-> generateSuggestions(topActivities(ls, activities), SumMinutes(ls))]

\* C12: each activity of the weekly breakdown carries its minutes c of the
\* week, its minutes p of the Monday-to-Sunday window just before, and
\* changePercentage (c - p) / p * 100 when p > 0, 100 when p = 0 and c > 0,
\* 0 when both are 0.
C12_ChangePercentage ==
  weekly # <<>> =>
    \A i \in 1..Len(weekly[1].activityBreakdown) :
      LET e == weekly[1].activityBreakdown[i]
          inWindow(from, to) ==
            SelectSeq(logs, LAMBDA log : /\ log.activityTypeId = e.activityTypeId
                                         /\ log.date >= from /\ log.date <= to)
          c == SumMinutes(inWindow(weekly[1].startDate, weekly[1].startDate + 6))
          p == SumMinutes(inWindow(weekly[1].startDate - 7, weekly[1].startDate - 1))
      IN /\ e.minutes = c
         /\ e.previousWeekMinutes = p
         /\ p > 0 => e.changePercentage.num * p = (c - p) * 100 * e.changePercentage.den
         /\ (p = 0 /\ c > 0) => e.changePercentage = Frac(100, 1)
         /\ (p = 0 /\ c = 0) => e.changePercentage = Frac(0, 1)
         /\ e.changePercentage.den # 0

\* A week with an activity that was logged, with other minutes, on the last
\* day of the week before
C12_Witness ==
  /\ weekly # <<>>
  /\ \E j \in 1..Len(weekly[1].activityBreakdown) :
       /\ weekly[1].activityBreakdown[j].previousWeekMinutes > 0
       /\ weekly[1].activityBreakdown[j].minutes
            > weekly[1].activityBreakdown[j].previousWeekMinutes
  /\ \E k \in 1..Len(logs) : logs[k].date = weekly[1].startDate - 1

(***************************************************************************)
(* The daily rollup: the browser's getDailyStats over the persisted logs   *)
(* and the server's GET /api/activity/daily over the store.  A log may     *)
(* name a type the reader cannot see: the browser keeps the logs of a      *)
(* custom type after its stored activities were cleared, the server        *)
(* stores whatever activityTypeId the body carries.                        *)
(***************************************************************************)

DailyDates == {1, 2}
\* The browser's logs come from the form, which creates none of 0 minutes;
\* insertActivityLogSchema takes any integer
ClientLogMinutes == {30, 45}
ServerLogMinutes == {-30, 0, 30, 45}
ClientLogTypeIds == {"1", "6", "10", "custom-1"}
ServerLogTypeIds == {"default-1", "default-6", "uuid-1"}

\* A custom type of user u2
CustomTypeU2 == [id |-> "uuid-1", userId |-> "u2", name |-> "Chess",
                 category |-> "productive", isDefault |-> FALSE]

ClientLogSeqs(ids, dates, mins) ==
  UNION {[1..n -> [activityTypeId : ids, date : dates, minutes : mins]]
         : n \in 0..MaxStatLogs}

ServerLogSeqs(ids, dates, mins) ==
  UNION {[1..n -> [userId : Users, activityTypeId : ids, date : dates, minutes : mins]]
         : n \in 0..MaxStatLogs}

\* The state of a browser or a server that holds the given logs and types
\* and has nothing in flight
Holding(sd, cls, sls, ats, offset) ==
  /\ side = sd
  /\ now = 1
  /\ formToday = 1
  /\ logs = [i \in 1..Len(cls) |-> [id |-> i, activityTypeId |-> cls[i].activityTypeId,
                                    date |-> cls[i].date, minutes |-> cls[i].minutes]]
  /\ streak = InitialStreak
  /\ nextId = Len(cls)
  /\ form = defaultValues
  /\ upd = [called |-> FALSE, prev |-> InitialStreak, date |-> NoDate, clock |-> NoDate,
            rep |-> FALSE]
  /\ activityLogs = [i \in 1..Len(sls) |->
                       [id |-> i, userId |-> sls[i].userId,
                        activityTypeId |-> sls[i].activityTypeId,
                        date |-> sls[i].date, minutes |-> sls[i].minutes]]
  /\ streaks = <<>>
  /\ req = [r \in Slots |-> IdleReq]
  /\ lastWrite = [u \in Users |-> NoWrite]
  /\ dayStart = [u \in Users |-> <<>>]
  /\ dirty = FALSE
  /\ weekly = <<>>
  /\ daily = <<>>
  /\ monthly = <<>>
  /\ activityTypes = ats
  /\ tz = offset
  /\ res = <<>>

\* The dashboard asks for the rollup of `date`.
GetDailyStats(date) ==
  /\ side = "client"
  /\ daily' = <<getDailyStats(logs, date)>>
  /\ UNCHANGED <<side, now, cvars, svars, weekly, monthly, activityTypes, tz, res>>

\* GET /api/activity/daily?date=...
ApiActivityDaily(userId, date) ==
  /\ side = "server"
  /\ res' = <<[route |-> "daily", userId |-> userId, date |-> date,
               body |-> dailyRollup(getActivityLogsByDate(activityLogs, userId, date),
                                    getActivityTypes(activityTypes, userId), date)]>>
  /\ UNCHANGED <<side, now, cvars, svars, weekly, daily, monthly, activityTypes, tz>>

InitDaily ==
  \/ \E ls \in ClientLogSeqs(ClientLogTypeIds, DailyDates, ClientLogMinutes) :
       Holding("client", ls, <<>>, initializeDefaultActivities, 0)
  \/ \E ls \in ServerLogSeqs(ServerLogTypeIds, DailyDates, ServerLogMinutes) :
       Holding("server", <<>>, ls, Append(initializeDefaultActivities, CustomTypeU2), 0)

NextDaily ==
  \/ \E d \in DailyDates : GetDailyStats(d)
  \/ \E u \in Users, d \in DailyDates : ApiActivityDaily(u, d)

SpecDaily == InitDaily /\ [][NextDaily]_vars

\* The latest daily rollups: the browser's, and the server's with the logs
\* and types it was computed from
DailyResults ==
  (IF daily = <<>> THEN {}
   ELSE {[body |-> daily[1],
          dayLogs |-> SelectSeq(logs, LAMBDA log : log.date = daily[1].date),
          types |-> defaultActivities]})
  \cup
  (IF res = <<>> \/ res[1].route # "daily" THEN {}
   ELSE {[body |-> res[1].body,
          dayLogs |-> getActivityLogsByDate(activityLogs, res[1].userId, res[1].date),
          types |-> getActivityTypes(activityTypes, res[1].userId)]})

\* C11: a date with no logs, or only zero-minute logs, has totalMinutes,
\* productiveMinutes and leisureMinutes 0 and percentage 0 for every listed
\* activity; with no logs at all the activities list is empty.
C11_ZeroDay ==
  \A r \in DailyResults :
    /\ (\A i \in 1..Len(r.dayLogs) : r.dayLogs[i].minutes = 0) =>
         /\ r.body.totalMinutes = 0
         /\ r.body.productiveMinutes = 0
         /\ r.body.leisureMinutes = 0
         /\ \A i \in 1..Len(r.body.activities) :
              r.body.activities[i].percentage = Frac(0, 1)
    /\ r.dayLogs = <<>> => r.body.activities = <<>>

\* A rollup of a date that has only zero-minute logs, of a known type
C11_Witness ==
  \E r \in DailyResults :
    /\ r.dayLogs # <<>>
    /\ \A i \in 1..Len(r.dayLogs) : r.dayLogs[i].minutes = 0
    /\ r.body.activities # <<>>

\* The logs of ls whose type is among types
Joinable(ls, types) ==
  SelectSeq(ls, LAMBDA log : findActivity(types, log.activityTypeId) # <<>>)

\* C18: totalMinutes counts every log of the date; the activities list,
\* productiveMinutes and leisureMinutes count the logs whose type exists; the
\* listed minutes sum to at most totalMinutes, and to exactly totalMinutes
\* exactly when no log of the date is orphaned.
C18_OrphansOnlyInTotal ==
  \A r \in DailyResults :
    LET as == r.body.activities
        joined == Joinable(r.dayLogs, r.types)
        ofCategory(c) == SelectSeq(joined, LAMBDA log :
                           findActivity(r.types, log.activityTypeId)[1].category = c)
    IN /\ r.body.totalMinutes = SumMinutes(r.dayLogs)
       /\ {as[i].activityTypeId : i \in 1..Len(as)}
            = {joined[i].activityTypeId : i \in 1..Len(joined)}
       /\ \A i, j \in 1..Len(as) : as[i].activityTypeId = as[j].activityTypeId => i = j
       /\ \A i \in 1..Len(as) :
            as[i].minutes = SumMinutes(SelectSeq(r.dayLogs, LAMBDA log :
                                         log.activityTypeId = as[i].activityTypeId))
       /\ r.body.productiveMinutes = SumMinutes(ofCategory("productive"))
       /\ r.body.leisureMinutes = SumMinutes(ofCategory("leisure"))
       /\ SumEntryMinutes(as) <= r.body.totalMinutes
       /\ SumEntryMinutes(as) = r.body.totalMinutes <=> joined = r.dayLogs

\* C19: the activities list is in the order in which each activityTypeId
\* first occurs among the date's logs.
C19_FirstOccurrenceOrder ==
  \A r \in DailyResults :
    LET as == r.body.activities
        joined == Joinable(r.dayLogs, r.types)
    IN [i \in 1..Len(as) |-> as[i].activityTypeId]
         = InsertionKeys([i \in 1..Len(joined) |-> joined[i].activityTypeId], {})

(***************************************************************************)
(* The monthly rollup of February 2024 (days 31..59) over logs dated in    *)
(* and around it: the browser's getMonthlyStats and the server's           *)
(* GET /api/activity/monthly.                                              *)
(***************************************************************************)

MonthLogDates == {30, 31, 32, 59, 60}
MonthAnchors == {31, 45, 59}
MonthClientTypeIds == {"1", "6"}
MonthServerTypeIds == {"default-1"}
MonthServerMinutes == {0, 30, 45}
\* The server's offset from UTC, in hours
TzOffsets == {-5, 0, 5}

\* The monthly page asks for the rollup of the month of `date`.
GetMonthlyStats(date) ==
  /\ side = "client"
  /\ monthly' = <<getMonthlyStats(logs, date)>>
  /\ UNCHANGED <<side, now, cvars, svars, weekly, daily, activityTypes, tz, res>>

\* GET /api/activity/monthly?date=...
ApiActivityMonthly(userId, date) ==
  /\ side = "server"
  /\ res' = <<[route |-> "monthly", userId |-> userId, date |-> date,
               body |-> apiActivityMonthly(activityLogs, activityTypes, userId, date, tz)]>>
  /\ UNCHANGED <<side, now, cvars, svars, weekly, daily, monthly, activityTypes, tz>>

InitMonthly ==
  \/ \E ls \in ClientLogSeqs(MonthClientTypeIds, MonthLogDates, ClientLogMinutes) :
       Holding("client", ls, <<>>, initializeDefaultActivities, 0)
  \/ \E ls \in ServerLogSeqs(MonthServerTypeIds, MonthLogDates, MonthServerMinutes) :
       \E offset \in TzOffsets :
         Holding("server", <<>>, ls, initializeDefaultActivities, offset)

NextMonthly ==
  \/ \E d \in MonthAnchors : GetMonthlyStats(d)
  \/ \E u \in Users, d \in MonthAnchors : ApiActivityMonthly(u, d)

SpecMonthly == InitMonthly /\ [][NextMonthly]_vars

\* The latest monthly rollups, each with the number of its month and the
\* logs of the reader
MonthlyResults ==
  (IF monthly = <<>> THEN {}
   ELSE {[body |-> monthly[1], month |-> monthly[1].month, ls |-> logs]})
  \cup
  (IF res = <<>> \/ res[1].route # "monthly" THEN {}
   ELSE {[body |-> res[1].body, month |-> monthOf(res[1].date),
          ls |-> SelectSeq(activityLogs, LAMBDA log : log.userId = res[1].userId)]})

\* C13: mostProductiveDay is the earliest of the month's days with the most
\* minutes, leastProductiveDay the latest of its days with the least positive
\* minutes; days without minutes are never chosen, and both are empty when
\* no day has minutes.
C13_MostLeastProductiveDay ==
  \A r \in MonthlyResults :
    LET days == MonthStarts[r.month] .. (MonthStarts[r.month + 1] - 1)
        mins(d) == SumMinutes(SelectSeq(r.ls, LAMBDA log : log.date = d))
        pos == {d \in days : mins(d) > 0}
        most == {d \in pos : \A e \in pos : mins(e) <= mins(d)}
        least == {d \in pos : \A e \in pos : mins(e) >= mins(d)}
    IN IF pos = {}
       THEN r.body.mostProductiveDay = NoDate /\ r.body.leastProductiveDay = NoDate
       ELSE /\ r.body.mostProductiveDay = CHOOSE d \in most : \A e \in most : d <= e
            /\ r.body.leastProductiveDay = CHOOSE d \in least : \A e \in least : d >= e

(***************************************************************************)
(* The record store behind the routes that create, delete and list         *)
(* activity types and logs, and GET /api/streak.                           *)
(***************************************************************************)

MaxTypes == 1      \* custom activity types in the store at once

\* randomUUID() for an activity type: an id that no stored type has and no
\* stored log names
UuidPool == <<"uuid-1", "uuid-2", "uuid-3">>
randomUUID(ats, als) ==
  UuidPool[CHOOSE k \in 1..Len(UuidPool) :
             /\ \A i \in 1..Len(ats) : ats[i].id # UuidPool[k]
             /\ \A i \in 1..Len(als) : als[i].activityTypeId # UuidPool[k]
             /\ \A j \in 1..(k - 1) :
                  \/ \E i \in 1..Len(ats) : ats[i].id = UuidPool[j]
                  \/ \E i \in 1..Len(als) : als[i].activityTypeId = UuidPool[j]]

\* MemStorage.createActivityType(activityType), id being the randomUUID()
createActivityType(ats, id, activityType) ==
  Append(ats, [id |-> id,
               userId |-> activityType.userId,
               name |-> activityType.name,
               category |-> activityType.category,
               isDefault |-> activityType.isDefault])

\* MemStorage.deleteActivityType(id)
deleteActivityType(ats, id) == SelectSeq(ats, LAMBDA t : t.id # id)

\* MemStorage.deleteActivityLog(id)
deleteActivityLog(als, id) == SelectSeq(als, LAMBDA log : log.id # id)

\* POST /api/activities: the body's fields with userId: req.userId
PostActivities(userId, isDefault) ==
  /\ side = "server"
  /\ Cardinality({i \in 1..Len(activityTypes) : activityTypes[i].userId # NullUser}) < MaxTypes
  /\ \E k \in 1..Len(UuidPool) :
       /\ \A i \in 1..Len(activityTypes) : activityTypes[i].id # UuidPool[k]
       /\ \A i \in 1..Len(activityLogs) : activityLogs[i].activityTypeId # UuidPool[k]
  /\ activityTypes' = createActivityType(activityTypes,
                                         randomUUID(activityTypes, activityLogs),
                                         [userId |-> userId, name |-> "Chess",
                                          category |-> "productive",
                                          isDefault |-> isDefault])
  /\ UNCHANGED <<side, now, cvars, svars, weekly, daily, monthly, tz, res>>

\* DELETE /api/activities/:id (404 and no change when there is no such type)
DeleteActivities(id) ==
  /\ side = "server"
  /\ \E i \in 1..Len(activityTypes) : activityTypes[i].id = id
  /\ activityTypes' = deleteActivityType(activityTypes, id)
  /\ UNCHANGED <<side, now, cvars, svars, weekly, daily, monthly, tz, res>>

\* DELETE /api/logs/:id (404 and no change when there is no such log)
DeleteLogs(id) ==
  /\ side = "server"
  /\ \E i \in 1..Len(activityLogs) : activityLogs[i].id = id
  /\ activityLogs' = deleteActivityLog(activityLogs, id)
  /\ UNCHANGED <<side, now, cvars, streaks, req, lastWrite, dayStart, dirty, xvars>>

\* GET /api/activities
GetActivities(userId) ==
  /\ side = "server"
  /\ res' = <<[route |-> "activities", userId |-> userId,
               body |-> getActivityTypes(activityTypes, userId)]>>
  /\ UNCHANGED <<side, now, cvars, svars, weekly, daily, monthly, activityTypes, tz>>

\* Mutant: the first record of the store, whoever owns it
apiStreakAnyUser(ss, userId) ==
  IF ss # <<>> THEN Triple(ss[1]) ELSE InitialStreak

\* GET /api/streak: streak || { currentStreak: 0, longestStreak: 0, lastActiveDate: null }
apiStreak(ss, userId) ==
  LET found == getStreak(ss, userId)
  IN IF found # <<>> THEN Triple(found[1])
     ELSE [currentStreak |-> 0, longestStreak |-> 0, lastActiveDate |-> NoDate]

\* GET /api/streak
GetStreak(userId) ==
  /\ side = "server"
  /\ res' = <<[route |-> "streak", userId |-> userId, body |-> apiStreak(streaks, userId)]>>
  /\ UNCHANGED <<side, now, cvars, svars, weekly, daily, monthly, activityTypes, tz>>

\* The activity types the bodies of POST /api/logs name, and the ids the
\* DELETE routes are called with
StoreLogTypeIds == {"default-1", "uuid-1"}
StoreDeleteTypeIds == {"default-1", "uuid-1"}

\* A server whose store holds the default types and nothing else
InitStore == Holding("server", <<>>, <<>>, initializeDefaultActivities, 0)

\* The logs are dated yesterday: their requests end at the date test
NextStore ==
  \/ \E u \in Users, b \in BOOLEAN : PostActivities(u, b)
  \/ \E id \in StoreDeleteTypeIds : DeleteActivities(id)
  \/ \E r \in Slots, u \in Users, t \in StoreLogTypeIds : PostLogs(r, u, t, now - 1)
  \/ \E r \in Slots : PostLogsToday(r)
  \/ \E id \in 1..MaxSrvLogs : DeleteLogs(id)
  \/ \E u \in Users : GetActivities(u)

SpecStore == InitStore /\ [][NextStore]_vars

\* A server with an empty store whose users post logs dated today and ask
\* for their streaks; the browser with nothing persisted
InitStreakApi ==
  \/ Holding("server", <<>>, <<>>, initializeDefaultActivities, 0)
  \/ Holding("client", <<>>, <<>>, initializeDefaultActivities, 0)

NextStreakApi ==
  \/ \E r \in Slots, u \in Users, t \in BodyActivityTypeIds : PostLogs(r, u, t, now)
  \/ \E r \in Slots : PostLogsToday(r)
  \/ \E r \in Slots : PostLogsStreak(r)
  \/ \E r \in Slots : PostLogsUpsert(r)
  \/ \E u \in Users : GetStreak(u)

SpecStreakApi == InitStreakApi /\ [][NextStreakApi]_vars

\* C14: every stored log's activityTypeId is the id of a stored type.
C14_LogsReferenceTypes ==
  \A i \in 1..Len(activityLogs) :
    \E j \in 1..Len(activityTypes) : activityTypes[j].id = activityLogs[i].activityTypeId

\* C15: getActivityTypes(u) is exactly the stored types without owner and the
\* stored types owned by u; a type created by another user is never in it.
C15_TypesVisibleToOwner ==
  \A u \in Users :
    /\ getActivityTypes(activityTypes, u)
         = SelectSeq(activityTypes, LAMBDA t : t.userId = NullUser \/ t.userId = u)
    /\ (res # <<>> /\ res[1].route = "activities" /\ res[1].userId = u
          /\ res[1].body = getActivityTypes(activityTypes, u)) =>
         \A i \in 1..Len(res[1].body) : res[1].body[i].userId \in {NullUser, u}

\* C17: GET /api/streak answers a user without a streak record with
\* currentStreak 0, longestStreak 0 and no lastActiveDate; the browser
\* starts from the same values when nothing is persisted.
C17_DefaultStreak ==
  /\ (res # <<>> /\ res[1].route = "streak" /\ getStreak(streaks, res[1].userId) = <<>>) =>
       res[1].body = [currentStreak |-> 0, longestStreak |-> 0, lastActiveDate |-> NoDate]
  /\ (side = "client" /\ ~upd.called) =>
       streak = [currentStreak |-> 0, longestStreak |-> 0, lastActiveDate |-> NoDate]

\* A user without a record asks for the streak while another user has one
C17_Witness ==
  /\ res # <<>> /\ res[1].route = "streak"
  /\ getStreak(streaks, res[1].userId) = <<>>
  /\ streaks # <<>>

\* C16: every log the form creates has minutes >= 1: a submission of 0 hours
\* and 0 minutes creates no log and leaves logs and streak as they were, any
\* other submission appends exactly one log of hours * 60 + minutes minutes.
C16_FormMinutesAtLeastOne ==
  /\ [](side = "client" => \A i \in 1..Len(logs) : logs[i].minutes >= 1)
  /\ [][\A a \in FormActivityIds, h \in FormHours, m \in FormMinutes :
          onSubmit(a, h, m) =>
            IF h * 60 + m = 0
            THEN logs' = logs /\ streak' = streak
            ELSE /\ Len(logs') = Len(logs) + 1
                 /\ SubSeq(logs', 1, Len(logs)) = logs
                 /\ logs'[Len(logs')].minutes = h * 60 + m
                 /\ logs'[Len(logs')].activityTypeId = a
      ]_vars

\* The form has logged an hour and a half
C16_Witness ==
  /\ side = "client"
  /\ \E i \in 1..Len(logs) : logs[i].minutes = 90

(***************************************************************************)
(* The weekly rollup: the browser's getWeeklyStats over the persisted logs *)
(* and the server's GET /api/activity/weekly over the store.               *)
(***************************************************************************)

\* The logs a snapshot may hold: dates around the week of days 7..13
StatDates == {6, 7, 10, 13, 14}
StatMinutes == {30, 45}
StatActivityIds == {"1", "6"}
AnchorDates == {6, 7, 9, 13, 14}

StatLogSeqs ==
  UNION {[1..n -> [activityTypeId : StatActivityIds, date : StatDates, minutes : StatMinutes]]
         : n \in 0..MaxStatLogs}

\* The weekly page asks for the rollup of the week of `date`.
GetWeeklyStats(date) ==
  /\ side = "client"
  /\ weekly' = <<getWeeklyStats(logs, date)>>
  /\ UNCHANGED <<side, now, cvars, svars, daily, monthly, activityTypes, tz, res>>

\* GET /api/activity/weekly?date=...
ApiActivityWeekly(userId, date) ==
  /\ side = "server"
  /\ res' = <<[route |-> "weekly", userId |-> userId, date |-> date,
               body |-> apiActivityWeekly(activityLogs, activityTypes, userId, date, tz)]>>
  /\ UNCHANGED <<side, now, cvars, svars, weekly, daily, monthly, activityTypes, tz>>

InitStats ==
  \/ /\ side = "client"
     /\ now = 1
     /\ formToday = 1
     /\ \E ls \in StatLogSeqs :
          logs = [i \in 1..Len(ls) |-> [id |-> i, activityTypeId |-> ls[i].activityTypeId,
                                        date |-> ls[i].date, minutes |-> ls[i].minutes]]
     /\ streak = InitialStreak
     /\ nextId = Len(logs)
     /\ form = defaultValues
     /\ upd = [called |-> FALSE, prev |-> InitialStreak, date |-> NoDate, clock |-> NoDate,
               rep |-> FALSE]
     /\ activityLogs = <<>>
     /\ streaks = <<>>
     /\ req = [r \in Slots |-> IdleReq]
     /\ lastWrite = [u \in Users |-> NoWrite]
     /\ dayStart = [u \in Users |-> <<>>]
     /\ dirty = FALSE
     /\ weekly = <<>>
     /\ daily = <<>>
     /\ monthly = <<>>
     /\ activityTypes = initializeDefaultActivities
     /\ tz = 0
     /\ res = <<>>
  \/ \E ls \in ServerLogSeqs(BodyActivityTypeIds, StatDates, {BodyMinutes}) :
       \E offset \in TzOffsets :
         Holding("server", <<>>, ls, initializeDefaultActivities, offset)

NextStats ==
  \/ \E d \in AnchorDates : GetWeeklyStats(d)
  \/ \E u \in Users, d \in AnchorDates : ApiActivityWeekly(u, d)

SpecStats == InitStats /\ [][NextStats]_vars

\* C10: the weekly rollup's totalMinutes is the sum of totalMinutes over its 7
\* dailyBreakdown entries, and is the total minutes of the logs dated within
\* the week window.
C10_WeeklyTotal ==
  weekly # <<>> =>
    /\ Len(weekly[1].dailyBreakdown) = 7
    /\ weekly[1].totalMinutes = SumTotalMinutes(weekly[1].dailyBreakdown)
    /\ weekly[1].totalMinutes =
         SumMinutes(SelectSeq(logs, LAMBDA log : /\ log.date >= weekly[1].startDate
                                                 /\ log.date <= weekly[1].endDate))

\* A week with a log on its last day and a log outside the window.
C10_Witness ==
  /\ weekly # <<>>
  /\ weekly[1].startDate = 7
  /\ \E i \in 1..Len(logs) : logs[i].date = 13
  /\ \E i \in 1..Len(logs) : logs[i].date = 14
  /\ weekly[1].totalMinutes > 0

\* The window of a weekly rollup b asked for with anchor d: 7 days from a
\* Monday to the following Sunday, d among them
WeekWindow(b, d) ==
  /\ getDay(b.startDate) = 1
  /\ b.endDate = b.startDate + 6
  /\ b.startDate <= d /\ d <= b.endDate

\* C20: the weekly rollup's window is the 7 days from the Monday on or before
\* the anchor date to the following Sunday, and dailyBreakdown lists those
\* days in ascending order; for the browser and for the server whatever its
\* time zone.
C20_WeekWindow ==
  [][ /\ \A d \in AnchorDates :
           GetWeeklyStats(d) =>
             /\ WeekWindow(weekly'[1], d)
             /\ Len(weekly'[1].dailyBreakdown) = 7
             /\ \A i \in 1..7 :
                  weekly'[1].dailyBreakdown[i].date = weekly'[1].startDate + i - 1
      /\ \A u \in Users, d \in AnchorDates :
           ApiActivityWeekly(u, d) => WeekWindow(res'[1].body, d)
    ]_vars

(***************************************************************************)
(* The weekly insights, over weeks with several activities: the browser    *)
(* holds at most one log per activity in the week of days 0..6 and one in  *)
(* the week of days 7..13; the server holds one log per activity of user   *)
(* u1 in the week of days 7..13.                                           *)
(***************************************************************************)

\* Work, Exercise, Social Media, Meditation
InsightClientIds == <<"1", "3", "6", "8">>
\* Exercise, Social Media, and a type that user u1 cannot see
InsightServerIds == <<"default-3", "default-6", "uuid-1">>
\* Minutes of a log of the browser (0: the activity has no log that week)
InsightClientMinutes == {0, 60, 200}
\* Minutes of a log of the server
InsightServerMinutes == {-300, 0, 60, 200}
InsightAnchors == {2, 9}

\* The browser's logs: for the k-th activity, prev[k] minutes on a day of the
\* first week and cur[k] minutes on a day of the second
InsightClientLogs(prev, cur) ==
  LET n == Len(InsightClientIds)
      all == [k \in 1..(2 * n) |->
                IF k <= n
                THEN [activityTypeId |-> InsightClientIds[k], date |-> k - 1,
                      minutes |-> prev[k]]
                ELSE [activityTypeId |-> InsightClientIds[k - n], date |-> 6 + k - n,
                      minutes |-> cur[k - n]]]
  IN SelectSeq(all, LAMBDA log : log.minutes # 0)

\* The server's logs: cur[k] minutes of the k-th activity, logged by u1
InsightServerLogs(cur) ==
  [k \in 1..Len(InsightServerIds) |->
     [userId |-> "u1", activityTypeId |-> InsightServerIds[k], date |-> 6 + k,
      minutes |-> cur[k]]]

InitInsights ==
  \/ \E prev \in [1..Len(InsightClientIds) -> InsightClientMinutes] :
       \E cur \in [1..Len(InsightClientIds) -> InsightClientMinutes] :
         Holding("client", InsightClientLogs(prev, cur), <<>>,
                 initializeDefaultActivities, 0)
  \/ \E cur \in [1..Len(InsightServerIds) -> InsightServerMinutes] :
       Holding("server", <<>>, InsightServerLogs(cur),
               Append(initializeDefaultActivities, CustomTypeU2), 0)

NextInsights ==
  \/ \E d \in InsightAnchors : GetWeeklyStats(d)
  \/ \E u \in Users, d \in InsightAnchors : ApiActivityWeekly(u, d)

SpecInsights == InitInsights /\ [][NextInsights]_vars

\* The kinds of the sentences of s, in order
Kinds(s) == [i \in 1..Len(s) |-> s[i].kind]

\* C21: the browser's weekly insights are at most 3 sentences, the first 3 of:
\* one sentence per activity of the breakdown whose changePercentage is above
\* 20 or below -20, in breakdown order; the leisure warning iff the week's
\* leisure minutes are more than 40% of its total; the health suggestion iff
\* its health minutes are under 180; the fallback iff none of these fired.
\* With 3 or more changed activities neither the leisure nor the health
\* sentence is returned.
C21_WeeklyInsights ==
  weekly # <<>> =>
    LET w == weekly[1]
        b == w.activityBreakdown
        week == SelectSeq(logs, LAMBDA log : log.date >= w.startDate /\ log.date <= w.endDate)
        ofCategory(c) ==
          SumMinutes(SelectSeq(week, LAMBDA log :
            \E i \in 1..10 : /\ ClientDefaultIds[i] = log.activityTypeId
                             /\ DefaultCategories[i] = c))
        changed == SelectSeq(b, LAMBDA a :
                     \/ a.changePercentage.num > 20 * a.changePercentage.den
                     \/ a.changePercentage.num < (-20) * a.changePercentage.den)
        deltas == [i \in 1..Len(changed) |->
                     <<IF changed[i].changePercentage.num > 0 THEN "more" ELSE "reduced",
                       changed[i].activityType[1].name>>]
        leisure == IF 5 * ofCategory("leisure") > 2 * w.totalMinutes
                   THEN <<(<<"leisure", "">>)>> ELSE <<>>
        health == IF ofCategory("health") < 180 THEN <<(<<"health", "">>)>> ELSE <<>>
        fired == deltas \o leisure \o health
        expected == IF fired = <<>> THEN <<(<<"balanced", "">>)>> ELSE fired
        got == [i \in 1..Len(w.insights) |-> <<w.insights[i].kind, w.insights[i].name>>]
    IN /\ Len(w.insights) <= 3
       /\ Len(got) = (IF Len(expected) < 3 THEN Len(expected) ELSE 3)
       /\ \A i \in 1..Len(got) : got[i] = expected[i]
       /\ Len(changed) >= 3 =>
            \A i \in 1..Len(w.insights) : w.insights[i].kind \in {"more", "reduced"}

\* A week with three changed activities, much leisure and little health: the
\* leisure and health sentences fired and the cut dropped them
C21_Witness ==
  /\ weekly # <<>>
  /\ Len(weekly[1].insights) = 3
  /\ Kinds(weekly[1].insights) \in {<<"more", "reduced", "more">>, <<"reduced", "more", "more">>}
  /\ Len(generateWeeklyInsightsUncut(weekly[1].activityBreakdown,
                                     weekly[1].totalMinutes)) = 5

\* The latest weekly rollups of the browser and of the server
WeeklyResults ==
  (IF weekly = <<>> THEN {} ELSE {weekly[1]})
  \cup (IF res = <<>> \/ res[1].route # "weekly" THEN {} ELSE {res[1].body})

\* C29: on every weekly breakdown that has no changePercentage above 20 or
\* below -20 and whose totalMinutes is at least the sum of its minutes, the
\* server's generateInsights and the browser's generateWeeklyInsights return
\* the same list (the server's guard totalMinutes > 0 never changes it), and
\* for an empty week both return a non-empty list.
C29_SameInsights ==
  \A w \in WeeklyResults :
    LET b == w.activityBreakdown
        steady == \A i \in 1..Len(b) :
                    /\ b[i].changePercentage.num <= 20 * b[i].changePercentage.den
                    /\ b[i].changePercentage.num >= (-20) * b[i].changePercentage.den
    IN /\ (steady /\ w.totalMinutes >= SumEntryMinutes(b)) =>
            generateInsights(b, w.totalMinutes) = generateWeeklyInsights(b, w.totalMinutes)
       /\ (b = <<>> /\ w.totalMinutes = 0) =>
            /\ generateInsights(b, w.totalMinutes) # <<>>
            /\ generateWeeklyInsights(b, w.totalMinutes) # <<>>

\* C22: the monthly rollup's dailyHeatmap has exactly one entry for every
\* calendar day of the anchor's month, days without minutes included, in
\* ascending date order, each with the sum of that day's minutes, and
\* totalMinutes is the sum over the heatmap; for the browser and the server.
C22_DailyHeatmap ==
  \A r \in MonthlyResults :
    LET first == MonthStarts[r.month]
        n == MonthStarts[r.month + 1] - first
        h == r.body.dailyHeatmap
    IN /\ Len(h) = n
       /\ \A i \in 1..Len(h) :
            /\ h[i].date = first + i - 1
            /\ h[i].minutes = SumMinutes(SelectSeq(r.ls, LAMBDA log : log.date = h[i].date))
       /\ r.body.totalMinutes = SumEntryMinutes(h)

(***************************************************************************)
(* The monthly top activities and suggestions, over months with up to      *)
(* seven activities: the browser holds the logs of February 2024 of Work,  *)
(* Study, Exercise, Sleep, Reading, Social Media and Gaming, each activity *)
(* logged on consecutive days; the server holds u1's logs of six           *)
(* activities, dated from 2024-01-31 on.                                   *)
(***************************************************************************)

SuggestClientIds == <<"1", "2", "3", "4", "5", "6", "7">>
\* For each activity, the logs it may have: <<number of logs, minutes of each>>
SuggestClientOptions ==
  <<{<<0, 0>>, <<1, 300>>, <<1, 700>>}, {<<0, 0>>, <<1, 300>>, <<1, 700>>},
    {<<0, 0>>, <<1, 300>>, <<1, 700>>}, {<<0, 0>>, <<1, 300>>, <<9, 1400>>},
    {<<0, 0>>, <<1, 300>>, <<1, 900>>}, {<<0, 0>>, <<1, 300>>, <<1, 900>>},
    {<<0, 0>>, <<1, 300>>, <<1, 900>>}>>
SuggestServerIds ==
  <<"default-1", "default-2", "default-3", "default-4", "default-5", "default-6">>
SuggestServerOptions == {<<0, 0>>, <<1, 300>>, <<1, 700>>}
SuggestAnchors == {20, 45}

RECURSIVE SuggestLogs(_, _, _, _)
\* The logs of the activities ids[k], ids[k + 1], ...: choice[j][1] logs of
\* choice[j][2] minutes each for ids[j], on consecutive days from first + j
SuggestLogs(ids, choice, first, k) ==
  IF k > Len(ids) THEN <<>>
  ELSE [j \in 1..choice[k][1] |->
          [userId |-> "u1", activityTypeId |-> ids[k], date |-> first + k + j - 1,
           minutes |-> choice[k][2]]]
       \o SuggestLogs(ids, choice, first, k + 1)

InitSuggest ==
  \/ \E choice \in [1..Len(SuggestClientIds) -> UNION {SuggestClientOptions[k] :
                                                       k \in 1..Len(SuggestClientIds)}] :
       /\ \A k \in 1..Len(SuggestClientIds) : choice[k] \in SuggestClientOptions[k]
       /\ Holding("client", SuggestLogs(SuggestClientIds, choice, 31, 1), <<>>,
                  initializeDefaultActivities, 0)
  \/ \E choice \in [1..Len(SuggestServerIds) -> SuggestServerOptions] :
       \E offset \in TzOffsets :
         Holding("server", <<>>, SuggestLogs(SuggestServerIds, choice, 29, 1),
                 initializeDefaultActivities, offset)

NextSuggest ==
  \/ \E d \in SuggestAnchors : GetMonthlyStats(d)
  \/ \E u \in Users, d \in SuggestAnchors : ApiActivityMonthly(u, d)

SpecSuggest == InitSuggest /\ [][NextSuggest]_vars

\* The latest monthly rollups, each with the logs of its month that the
\* reader holds and the activity types the reader sees
MonthlyTops ==
  (IF monthly = <<>> THEN {}
   ELSE {[body |-> monthly[1],
          ls |-> SelectSeq(logs, LAMBDA log : monthOf(log.date) = monthly[1].month),
          types |-> defaultActivities]})
  \cup
  (IF res = <<>> \/ res[1].route # "monthly" THEN {}
   ELSE {[body |-> res[1].body,
          ls |-> SelectSeq(activityLogs, LAMBDA log : /\ log.userId = res[1].userId
                                                      /\ monthOf(log.date) = monthOf(res[1].date)),
          types |-> getActivityTypes(activityTypes, res[1].userId)]})

\* C23: topActivities has at most 5 entries, each the month's summed minutes
\* of one activityTypeId together with its activity type, in non-increasing
\* order of minutes, and no activity left out (of those whose type is known)
\* has strictly more minutes than a listed one.
C23_TopActivities ==
  \A r \in MonthlyTops :
    LET top == r.body.topActivities
        mins(id) == SumMinutes(SelectSeq(r.ls, LAMBDA log : log.activityTypeId = id))
        listed == {top[i].activityTypeId : i \in 1..Len(top)}
        joinable == {r.ls[k].activityTypeId : k \in 1..Len(r.ls)}
                      \cap {r.types[k].id : k \in 1..Len(r.types)}
    IN /\ Len(top) <= 5
       /\ Cardinality(listed) = Len(top)
       /\ \A i \in 1..Len(top) :
            /\ top[i].activityTypeId \in joinable
            /\ top[i].activityType = findActivity(r.types, top[i].activityTypeId)
            /\ top[i].minutes = mins(top[i].activityTypeId)
       /\ \A i \in 1..(Len(top) - 1) : top[i].minutes >= top[i + 1].minutes
       /\ \A id \in joinable \ listed :
            /\ Len(top) = 5
            /\ \A i \in 1..Len(top) : mins(id) <= top[i].minutes

\* The minutes that the logs of the month of the browser's latest monthly
\* rollup give to the activities named in `names`
MonthMinutesOf(names) ==
  SumMinutes(SelectSeq(logs, LAMBDA log :
    /\ monthOf(log.date) = monthly[1].month
    /\ \E i \in 1..10 : /\ ClientDefaultIds[i] = log.activityTypeId
                        /\ DefaultNames[i] \in names))

\* The names of the default activities of a category
NamesOf(category) == {DefaultNames[i] : i \in {j \in 1..10 : DefaultCategories[j] = category}}

\* C24: the monthly suggestions are 1 to 4 sentences, in the order limit,
\* sleep, exercise, productive reinforcement; the generic sentence is
\* returned iff none of the four rules fired, and the cut to 4 removes no
\* sentence of a rule that fired.
C24_MonthlySuggestions ==
  monthly # <<>> =>
    LET s == monthly[1].suggestions
        top == monthly[1].topActivities
        total == monthly[1].totalMinutes
        rank(kind) == CASE kind = "limit" -> 1 [] kind = "sleep" -> 2
                        [] kind = "exercise" -> 3 [] kind = "productive" -> 4
                        [] OTHER -> 0
        has(names) == \E i \in 1..Len(top) : top[i].activityType[1].name \in names
        minutesOf(names) ==
          SumEntryMinutes(SelectSeq(top, LAMBDA a : a.activityType[1].name \in names))
        first(names) == (CHOOSE i \in 1..Len(top) :
                           /\ top[i].activityType[1].name \in names
                           /\ \A j \in 1..(i - 1) : top[j].activityType[1].name \notin names)
        fired == {k \in {"limit", "sleep", "exercise", "productive"} :
                    \/ k = "limit" /\ has({"Social Media", "Gaming"})
                         /\ 4 * top[first({"Social Media", "Gaming"})].minutes > total
                    \/ k = "sleep" /\ minutesOf({"Sleep"}) < 12600
                    \/ k = "exercise" /\ minutesOf({"Exercise"}) < 600
                    \/ k = "productive" /\ 2 * minutesOf(NamesOf("productive")) > total}
    IN /\ Len(s) >= 1 /\ Len(s) <= 4
       /\ \A i \in 1..(Len(s) - 1) : rank(s[i].kind) > 0 /\ rank(s[i].kind) < rank(s[i + 1].kind)
       /\ (\E i \in 1..Len(s) : s[i].kind = "generic") <=> fired = {}
       /\ fired = {} => Kinds(s) = <<"generic">>
       /\ \A k \in fired : \E i \in 1..Len(s) : s[i].kind = k

\* A month in which all four rules fired
C24_Witness ==
  /\ monthly # <<>>
  /\ Kinds(monthly[1].suggestions) = <<"limit", "sleep", "exercise", "productive">>

\* C25: the limit suggestion is returned iff some activity named Social Media
\* or Gaming has more than 25% of the month's totalMinutes, whatever the logs,
\* and it names the one of these two with the most minutes.
C25_LimitSuggestion ==
  monthly # <<>> =>
    LET s == monthly[1].suggestions
        total == monthly[1].totalMinutes
        over == {n \in {"Social Media", "Gaming"} : 4 * MonthMinutesOf({n}) > total}
        limits == {i \in 1..Len(s) : s[i].kind = "limit"}
    IN /\ (limits # {}) <=> (over # {})
       /\ \A i \in limits :
            /\ s[i].name \in over
            /\ \A n \in over : MonthMinutesOf({n}) <= MonthMinutesOf({s[i].name})

\* A month with six activities where Gaming has more minutes than Social
\* Media and more than a quarter of the total
C25_Witness ==
  /\ monthly # <<>>
  /\ Len(activityBreakdownEntries(logs)) >= 6
  /\ \E i \in 1..Len(monthly[1].suggestions) :
       /\ monthly[1].suggestions[i].kind = "limit"
       /\ monthly[1].suggestions[i].name = "Gaming"
  /\ MonthMinutesOf({"Social Media"}) > 0

\* C26: the exercise suggestion is returned iff the month has no Exercise
\* minutes logged or fewer than 600, and the sleep suggestion iff the month's
\* Sleep minutes divided by 30 are under 420; both on the true monthly
\* totals, also when more than 5 activities were logged.
C26_ExerciseSleepSuggestions ==
  monthly # <<>> =>
    LET s == monthly[1].suggestions
    IN /\ (\E i \in 1..Len(s) : s[i].kind = "exercise") <=> MonthMinutesOf({"Exercise"}) < 600
       /\ (\E i \in 1..Len(s) : s[i].kind = "sleep") <=> MonthMinutesOf({"Sleep"}) < 420 * 30

\* C27: the productive reinforcement is returned iff the month's minutes of
\* all productive activities together are more than 50% of totalMinutes, also
\* when more than 5 activities were logged.
C27_ProductiveReinforcement ==
  monthly # <<>> =>
    LET s == monthly[1].suggestions
    IN (\E i \in 1..Len(s) : s[i].kind = "productive")
         <=> 2 * MonthMinutesOf(NamesOf("productive")) > monthly[1].totalMinutes

(***************************************************************************)
(* The server's streak of one user whose logs are added and deleted:       *)
(* POST /api/logs with today's date, DELETE /api/logs/:id, and midnight.   *)
(***************************************************************************)

InitStreakDeletes == Init /\ side = "server"

NextStreakDeletes ==
  \/ \E r \in Slots, t \in BodyActivityTypeIds : PostLogs(r, "u1", t, now)
  \/ \E r \in Slots : PostLogsToday(r)
  \/ \E r \in Slots : PostLogsStreak(r)
  \/ \E r \in Slots : PostLogsUpsert(r)
  \/ \E id \in 1..MaxSrvLogs : DeleteLogs(id)
  \/ Tick

SpecStreakDeletes == InitStreakDeletes /\ [][NextStreakDeletes]_vars

\* C28: longestStreak never decreases, whatever logs are added or deleted and
\* however the days advance, and whenever lastActiveDate is set currentStreak
\* is at least 1; for the browser's streak and for every record of the server.
C28_LongestNeverDecreases ==
  /\ [](/\ streak.lastActiveDate # NoDate => streak.currentStreak >= 1
        /\ \A i \in 1..Len(streaks) :
             streaks[i].lastActiveDate # NoDate => streaks[i].currentStreak >= 1)
  /\ [][/\ streak'.longestStreak >= streak.longestStreak
        /\ \A i \in 1..Len(streaks) :
             /\ i <= Len(streaks')
             /\ streaks'[i].longestStreak >= streaks[i].longestStreak]_vars

(***************************************************************************)
(* The duration stepper of the AddActivity form                            *)
(***************************************************************************)

\* quickTimes: 15m, 30m, 1h, 2h
quickTimes ==
  <<[hours |-> 0, minutes |-> 15], [hours |-> 0, minutes |-> 30],
    [hours |-> 1, minutes |-> 0], [hours |-> 2, minutes |-> 0]>>

\* incrementHours()
incrementHours ==
  /\ side = "client"
  /\ form' = IF form.hours < 24 THEN [form EXCEPT !.hours = form.hours + 1] ELSE form
  /\ UNCHANGED <<side, now, formToday, logs, streak, nextId, upd, svars, xvars>>

\* decrementHours()
decrementHours ==
  /\ side = "client"
  /\ form' = IF form.hours > 0 THEN [form EXCEPT !.hours = form.hours - 1] ELSE form
  /\ UNCHANGED <<side, now, formToday, logs, streak, nextId, upd, svars, xvars>>

\* incrementMinutes()
incrementMinutes ==
  /\ side = "client"
  /\ form' = IF form.minutes < 55
             THEN [form EXCEPT !.minutes = form.minutes + 5]
             ELSE IF form.hours < 24
                  THEN [hours |-> form.hours + 1, minutes |-> 0]
                  ELSE form
  /\ UNCHANGED <<side, now, formToday, logs, streak, nextId, upd, svars, xvars>>

\* decrementMinutes()
decrementMinutes ==
  /\ side = "client"
  /\ form' = IF form.minutes >= 5
             THEN [form EXCEPT !.minutes = form.minutes - 5]
             ELSE IF form.hours > 0
                  THEN [hours |-> form.hours - 1, minutes |-> 55]
                  ELSE form
  /\ UNCHANGED <<side, now, formToday, logs, streak, nextId, upd, svars, xvars>>

\* setQuickTime(h, m)
setQuickTime(h, m) ==
  /\ side = "client"
  /\ form' = [hours |-> h, minutes |-> m]
  /\ UNCHANGED <<side, now, formToday, logs, streak, nextId, upd, svars, xvars>>

InitStepper == Init /\ side = "client"

NextStepper ==
  \/ incrementHours
  \/ decrementHours
  \/ incrementMinutes
  \/ decrementMinutes
  \/ \E i \in 1..Len(quickTimes) : setQuickTime(quickTimes[i].hours, quickTimes[i].minutes)

SpecStepper == InitStepper /\ [][NextStepper]_vars

\* C30: from 0 hours 30 minutes, after any sequence of stepper and quick-time
\* actions, hours is within 0..24, minutes is within 0..55 and a multiple of
\* 5, and hours * 60 + minutes is at most 24 * 60.
C30_StepperRange ==
  /\ form.hours >= 0 /\ form.hours <= 24
  /\ form.minutes >= 0 /\ form.minutes <= 55
  /\ form.minutes % 5 = 0
  /\ form.hours * 60 + form.minutes <= 24 * 60

====
